---- MODULE Spec2Model ----
(***************************************************************************)
(* The proving pipeline of ministark: generate_proof, in its two           *)
(* implementations,                                                        *)
(*   Prover::generate_proof    (mini-stark/src/prover.rs, lines 113-231)   *)
(*   Provable::generate_proof  (src/prover.rs, lines 31-142)               *)
(* as a state machine over the Fiat-Shamir transcript.  Every channel      *)
(* operation of the code is one action; the transcript records the         *)
(* operations in the order the channel sees them.                          *)
(*                                                                         *)
(* Beside the pipeline, the functions around it, each under its own        *)
(* specification:                                                          *)
(*   OptionsSpec    ProofOptions::new         (mini-stark/src/prover.rs)   *)
(*   MemorySpec     MemoryTable::derive_matrix (brainfuck/src/memory_table) *)
(*   TableSpec      MemoryTable new, set_matrix, pad, len                  *)
(*   ConstraintsSpec  MemoryTable's constraints at rows                    *)
(*   FibSpec        gen_trace, FibAirConfig   (examples/fib/main.rs)       *)
(*   BrainfuckSpec  get_pub_inputs, main      (mini-stark/examples/brainfuck) *)
(***************************************************************************)
EXTENDS Integers, Sequences, FiniteSets, TLC

\* ------------------------------------------------------------- bounds

\* Largest column count of a witness matrix or AIR declaration.
MaxCols == 2
\* Largest wall-clock reading of Instant::now() / Timer::new.
MaxTime == 1
\* Size of the digest space of the modelled hash.
Modulus == 97

\* ---------------------------------------------------------- constants

\* FriOptions::new(blowup_factor, 8, 64): the folding factor.
FriFoldingFactor == 8
\* FriOptions::new(blowup_factor, 8, 64): the largest remainder.
FriMaxRemainderSize == 64

Impls == {"Prover", "Provable"}
\* The calls of generate_proof on the same inputs: a first and a second.
Runs == {1, 2}
\* Trace lengths: 8 needs no FRI layer at any blowup, 512 needs two.
TraceLens == {8, 512}
\* options.blowup_factor, and the AIR's constraint evaluation blowup
\* factors below it, equal to it and above it.
LdeBlowups == {2}
CeBlowups == {1, 2, 4}

VARIABLES
    impl,              \* which generate_proof runs
    debug_assertions,  \* cfg(debug_assertions)
    airConfig,         \* NUM_BASE_COLUMNS, NUM_EXTENSION_COLUMNS, ce_blowup_factor
    options,           \* ProofOptions
    witness,           \* the trace handed to generate_proof
    pc,                \* position inside generate_proof
    now,               \* the last Instant read
    channel,           \* ProverChannel
    transcript,        \* channel operations so far, in order
    challenges,        \* <<>> or <<c>>: the AIR challenges
    extension_trace,   \* <<>> (None) or <<matrix>> (Some)
    composition_coeffs, \* <<>> or <<c>>: the composition coefficients
    ood_point,         \* <<>> or <<z>>: the out-of-domain point
    deep_coeffs,       \* <<>> or <<c>>: the DEEP composition coefficients
    fri_n,             \* size of the FRI layer being built
    query_positions,   \* <<>> or <<p>>
    result,            \* <<>> or <<proof>>: Ok(proof)
    run,               \* number of the current call
    prev,              \* <<>> or <<outcome of the previous call>>
    \* ProofOptions::new
    new_args,          \* (num_queries, blowup_factor, grinding_factor)
    new_pc,            \* "idle", "call", "returned" or "panicked"
    proof_options,     \* <<>> or <<the ProofOptions constructed>>
    \* MemoryTable
    processor_matrix,  \* the processor table's rows
    matrix,            \* derive_matrix's vector
    loop_i,            \* derive_matrix's loop variable i
    loop_end,          \* the end of the range 0..matrix.len() - 1
    mem_pc,            \* position inside derive_matrix
    first_row,         \* <<>> or <<first row of the extended table>>
    table,             \* a MemoryTable: num_padded_rows, num_randomizers, matrix
    last_set,          \* the matrix most recently passed to set_matrix
    last_call,         \* <<>> or <<the call of pad that came last>>
    evaluated,         \* <<>> or <<constraints evaluated at rows>>
    \* examples/fib
    fib_n,             \* gen_trace's argument n
    fib_v,             \* gen_trace's v0..v7
    fib_cols,          \* gen_trace's col0..col7
    fib_pc,            \* position inside main and gen_trace
    fib_claim,         \* <<>> or <<the value FibClaim carries>>
    \* examples/brainfuck
    bf_run,            \* what simulate returned: trace rows, input, output
    bf_pc,             \* position inside main
    pub_inputs         \* <<>> or <<ExecutionInfo of get_pub_inputs>>

inputs == <<impl, debug_assertions, airConfig, options, witness>>
runvars == <<pc, now, channel, transcript, challenges, extension_trace,
             composition_coeffs, ood_point, deep_coeffs, fri_n,
             query_positions, result>>
optvars == <<new_args, new_pc, proof_options>>
memvars == <<processor_matrix, matrix, loop_i, loop_end, mem_pc, first_row>>
fibvars == <<fib_n, fib_v, fib_cols, fib_pc, fib_claim>>
bfvars == <<bf_run, bf_pc, pub_inputs>>
tblvars == <<table, last_set, last_call>>
csvars == <<evaluated>>
\* The state outside generate_proof.
outside == <<optvars, memvars, fibvars, bfvars, tblvars, csvars>>
\* The state of generate_proof and of its caller.
pipeline == <<inputs, runvars, run, prev>>
vars == <<pipeline, outside>>

\* ------------------------------------------------ hashing and matrices

\* The hash: absorbs b into digest a.
Mix(a, b) == (a * 31 + b + 1) % Modulus

\* A matrix is known by its shape and a digest of its entries.
Matrix(cols, rows, digest) ==
    [num_cols |-> cols, num_rows |-> rows, digest |-> digest]

\* Matrix::interpolate / interpolate_columns over the trace domain.
interpolate(m) == Matrix(m.num_cols, m.num_rows, Mix(m.digest, 2))

\* Matrix::evaluate over the LDE domain of size trace_len * blowup.
evaluate(p, lde_size) == Matrix(p.num_cols, lde_size, Mix(p.digest, 3))

\* Matrix::commit_to_rows: the Merkle root of the rows.
commit_to_rows(m) == Mix(Mix(m.num_cols, m.num_rows % Modulus), m.digest)

\* Witness::base_columns / Trace::base_columns.
base_columns(w) ==
    Matrix(w.base_cols, w.trace_len, Mix(w.base_cols, w.trace_len % Modulus))

\* Witness::build_extension_columns(&challenges): None, or columns that
\* are functions of the base columns and the challenges.
build_extension_columns(w, ch) ==
    IF w.ext_cols = 0 THEN <<>>
    ELSE <<Matrix(w.ext_cols, w.trace_len, Mix(base_columns(w).digest, ch))>>

\* air.lde_domain(): trace_len * lde_blowup_factor points.
lde_domain_size == witness.trace_len * options.blowup_factor

\* build_trace_commitment: (lde, polys, merkle root) of a trace matrix.
build_trace_commitment(trace) ==
    LET trace_polys == interpolate(trace)
        trace_lde == evaluate(trace_polys, lde_domain_size)
    IN  [lde |-> trace_lde, polys |-> trace_polys,
         root |-> commit_to_rows(trace_lde)]

\* ------------------------------------------------------------ channel

\* ProverChannel::new(&air): the public coin is seeded with the AIR.
NewChannel ==
    [public_coin |-> Mix(Mix(witness.trace_len % Modulus, options.blowup_factor),
                         airConfig.ce_blowup_factor),
     base_trace_commitment |-> <<>>,
     extension_trace_commitment |-> <<>>,
     composition_trace_commitment |-> <<>>,
     fri_layers |-> 0,
     pow_nonce |-> <<>>]

\* Absorbing a message reseeds the public coin.
Reseed(ch, v) == [ch EXCEPT !.public_coin = Mix(@, v)]

\* A draw is a function of everything absorbed so far.
DrawValue(ch) == Mix(ch.public_coin, 0)

Entry(op, v) == [op |-> op, val |-> v]

\* The channel sees operation op carrying value v.
Log(op, v) == transcript' = Append(transcript, Entry(op, v))

\* Names of the channel operations, per implementation.
OpChallenges == IF impl = "Prover" THEN "get_challenges" ELSE "gen_challenges"
OpCompositionCoeffs ==
    IF impl = "Prover" THEN "get_constraint_composition_coeffs"
    ELSE "gen_composition_constraint_coeffs"
OpOodExecution ==
    IF impl = "Prover" THEN "send_ood_trace_states"
    ELSE "send_execution_trace_ood_evals"
OpOodComposition ==
    IF impl = "Prover" THEN "send_ood_constraint_evaluations"
    ELSE "send_composition_trace_ood_evals"
OpDeepCoeffs ==
    IF impl = "Prover" THEN "get_deep_composition_coeffs"
    ELSE "gen_deep_composition_coeffs"

\* ------------------------------------------------------- initial state

Witnesses ==
    [trace_len : TraceLens, base_cols : 1..MaxCols, ext_cols : 0..(MaxCols - 1),
     valid : BOOLEAN]

AirConfigs ==
    [NUM_BASE_COLUMNS : 1..MaxCols, NUM_EXTENSION_COLUMNS : 0..(MaxCols - 1),
     ce_blowup_factor : CeBlowups]

Options == [blowup_factor : LdeBlowups]

\* The state at the entry of generate_proof.
RunInit ==
    /\ pc = "start"
    /\ now = 0
    /\ channel = NewChannel
    /\ transcript = <<>>
    /\ challenges = <<>>
    /\ extension_trace = <<>>
    /\ composition_coeffs = <<>>
    /\ ood_point = <<>>
    /\ deep_coeffs = <<>>
    /\ fri_n = 0
    /\ query_positions = <<>>
    /\ result = <<>>

\* ProofOptions::new is not being called.
OptionsIdle ==
    /\ new_args = [num_queries |-> 0, blowup_factor |-> 0, grinding_factor |-> 0]
    /\ new_pc = "idle"
    /\ proof_options = <<>>

\* No memory table is being derived.
MemoryIdle ==
    /\ processor_matrix = <<>>
    /\ matrix = <<>>
    /\ loop_i = 0
    /\ loop_end = 0
    /\ mem_pc = "idle"
    /\ first_row = <<>>

\* The fib example is not running.
FibIdle ==
    /\ fib_n = 0
    /\ fib_v = <<>>
    /\ fib_cols = <<>>
    /\ fib_pc = "idle"
    /\ fib_claim = <<>>

\* The brainfuck example is not running.
BrainfuckIdle ==
    /\ bf_run = <<>>
    /\ bf_pc = "idle"
    /\ pub_inputs = <<>>

\* No MemoryTable is in use.
TableIdle ==
    /\ table = [num_padded_rows |-> 0, num_randomizers |-> 0, matrix |-> <<>>]
    /\ last_set = <<>>
    /\ last_call = <<>>

\* No constraint is being evaluated.
ConstraintsIdle == evaluated = <<>>

Init ==
    /\ impl \in Impls
    /\ debug_assertions \in BOOLEAN
    /\ airConfig \in AirConfigs
    /\ options \in Options
    /\ witness \in Witnesses
    /\ RunInit
    /\ run = 1
    /\ prev = <<>>
    /\ OptionsIdle
    /\ MemoryIdle
    /\ FibIdle
    /\ BrainfuckIdle
    /\ TableIdle
    /\ ConstraintsIdle

\* generate_proof is not running: one fixed call that has not started.
PipelineIdle ==
    /\ impl = "Prover"
    /\ debug_assertions = FALSE
    /\ airConfig = [NUM_BASE_COLUMNS |-> 1, NUM_EXTENSION_COLUMNS |-> 0,
                    ce_blowup_factor |-> 1]
    /\ options = [blowup_factor |-> 2]
    /\ witness = [trace_len |-> 8, base_cols |-> 1, ext_cols |-> 0,
                  valid |-> TRUE]
    /\ RunInit
    /\ run = 1
    /\ prev = <<>>

\* Instant::now() / Timer::new: any reading of the wall clock.
ReadClock == \E t \in 0..MaxTime : now' = t

\* ------------------------------------------------------ generate_proof

\* assert!(ce_blowup_factor <= lde_blowup_factor) of Prover::generate_proof.
BlowupAssertion == airConfig.ce_blowup_factor <= options.blowup_factor

\* assert_eq!(NUM_BASE_COLUMNS, base_trace.num_cols()) of
\* Provable::generate_proof.
BaseColumnsAssertion ==
    airConfig.NUM_BASE_COLUMNS = base_columns(witness).num_cols

\* extension_trace.as_ref().map_or(0, Matrix::num_cols)
num_extension_cols ==
    IF extension_trace = <<>> THEN 0 ELSE extension_trace[1].num_cols

\* ExtensionColumnsAssertion comparing the count of Some(trace) only.
ExtensionColumnsAssertionSomeOnly ==
    extension_trace = <<>>
    \/ airConfig.NUM_EXTENSION_COLUMNS = extension_trace[1].num_cols

\* assert_eq!(NUM_EXTENSION_COLUMNS, num_extension_cols) of
\* Provable::generate_proof.
ExtensionColumnsAssertion ==
    airConfig.NUM_EXTENSION_COLUMNS = num_extension_cols

\* air.validate_constraints(&challenges, &execution_trace) of the Prover:
\* panics when a constraint does not vanish on its rows.
air_validate_constraints == witness.valid

\* Provable::validate_constraints: the body is commented out, it returns.
validate_constraints == TRUE

\* (lde, polys, root) of the base trace.
base_trace == build_trace_commitment(base_columns(witness))

\* (lde, polys, root) of the extension trace, when there is one.
extension_commitment == build_trace_commitment(extension_trace[1])

\* The execution trace polynomials: base columns, then extension columns.
execution_trace_polys ==
    IF extension_trace = <<>> THEN base_trace.polys
    ELSE Matrix(base_trace.polys.num_cols + extension_commitment.polys.num_cols,
                base_trace.polys.num_rows,
                Mix(base_trace.polys.digest, extension_commitment.polys.digest))

\* The composition trace cut into columns of trace_len coefficients.
composition_trace_rows_trace_len == witness.trace_len

\* chunks(ce_blowup_factor) and Matrix::from_rows: the coefficient of the
\* composition polynomial held in row j of column k (both from 0).
coefficient_index(j, k) == j * airConfig.ce_blowup_factor + k

\* Rows of the composition trace.  Provable: the coefficient vector over
\* the LDE domain is cut by chunks(ce_blowup_factor) into rows of
\* ce_blowup_factor entries.  Prover: ConstraintComposer::build_commitment.
composition_trace_rows ==
    IF impl = "Provable" THEN lde_domain_size \div airConfig.ce_blowup_factor
    ELSE witness.trace_len

\* The composition trace: the constraint evaluations over the LDE domain,
\* interpolated and cut into ce_blowup_factor columns.
composition_trace_polys ==
    Matrix(airConfig.ce_blowup_factor, composition_trace_rows,
           Mix(Mix(execution_trace_polys.digest, challenges[1]),
               composition_coeffs[1]))

composition_trace_lde == evaluate(composition_trace_polys, lde_domain_size)

\* NewAir going on to the challenges without the base commitment.
NewAirNoBaseCommit ==
    /\ pc = "start"
    /\ ReadClock
    /\ channel' = NewChannel
    /\ pc' = "challenges"
    /\ UNCHANGED <<outside, inputs, transcript, challenges, extension_trace,
                   composition_coeffs, ood_point, deep_coeffs, fri_n,
                   query_positions, result, run, prev>>

\* Air::new and ProverChannel::new: the first lines of generate_proof.
NewAir ==
    /\ pc = "start"
    /\ ReadClock
    /\ channel' = NewChannel
    /\ pc' = IF impl = "Prover" THEN "check_blowup" ELSE "assert_base"
    /\ UNCHANGED <<outside, inputs, transcript, challenges, extension_trace,
                   composition_coeffs, ood_point, deep_coeffs, fri_n,
                   query_positions, result, run, prev>>

\* Prover: the blowup factors are compared before anything is committed.
CheckBlowup ==
    /\ pc = "check_blowup"
    /\ pc' = IF BlowupAssertion THEN "commit_base" ELSE "aborted"
    /\ UNCHANGED <<outside, inputs, now, channel, transcript, challenges,
                   extension_trace, composition_coeffs, ood_point,
                   deep_coeffs, fri_n, query_positions, result, run, prev>>

\* Provable: the base trace's column count is compared with the AIR's.
AssertBaseColumns ==
    /\ pc = "assert_base"
    /\ ReadClock
    /\ pc' = IF BaseColumnsAssertion THEN "commit_base" ELSE "aborted"
    /\ UNCHANGED <<outside, inputs, channel, transcript, challenges, extension_trace,
                   composition_coeffs, ood_point, deep_coeffs, fri_n,
                   query_positions, result, run, prev>>

\* CommitBaseTrace absorbing the timer's reading with the root.
CommitBaseTraceTimed ==
    /\ pc = "commit_base"
    /\ channel' = [Reseed(channel, base_trace.root + now) EXCEPT
                     !.base_trace_commitment = <<base_trace.root>>]
    /\ Log("commit_base_trace", base_trace.root + now)
    /\ pc' = "challenges"
    /\ UNCHANGED <<outside, inputs, now, challenges, extension_trace,
                   composition_coeffs, ood_point, deep_coeffs, fri_n,
                   query_positions, result, run, prev>>

\* channel.commit_base_trace(base_trace_lde_tree.root())
CommitBaseTrace ==
    /\ pc = "commit_base"
    /\ channel' = [Reseed(channel, base_trace.root) EXCEPT
                     !.base_trace_commitment = <<base_trace.root>>]
    /\ Log("commit_base_trace", base_trace.root)
    /\ pc' = "challenges"
    /\ UNCHANGED <<outside, inputs, now, challenges, extension_trace,
                   composition_coeffs, ood_point, deep_coeffs, fri_n,
                   query_positions, result, run, prev>>

\* channel.get_challenges(num_challenges) / air.gen_challenges(public_coin)
GetChallenges ==
    /\ pc = "challenges"
    /\ challenges' = <<DrawValue(channel)>>
    /\ channel' = Reseed(channel, DrawValue(channel))
    /\ Log(OpChallenges, DrawValue(channel))
    /\ pc' = "build_ext"
    /\ UNCHANGED <<outside, inputs, now, extension_trace, composition_coeffs,
                   ood_point, deep_coeffs, fri_n, query_positions, result,
                   run, prev>>

\* BuildExtensionColumns going on without the extension commitment.
BuildExtensionColumnsNoCommit ==
    /\ pc = "build_ext"
    /\ ReadClock
    /\ extension_trace' = build_extension_columns(witness, challenges[1])
    /\ pc' = "validate"
    /\ UNCHANGED <<outside, inputs, channel, transcript, challenges,
                   composition_coeffs, ood_point, deep_coeffs, fri_n,
                   query_positions, result, run, prev>>

\* witness.build_extension_columns(&challenges)
BuildExtensionColumns ==
    /\ pc = "build_ext"
    /\ ReadClock
    /\ extension_trace' = build_extension_columns(witness, challenges[1])
    /\ pc' = IF impl = "Provable" THEN "assert_ext" ELSE "commit_ext"
    /\ UNCHANGED <<outside, inputs, channel, transcript, challenges,
                   composition_coeffs, ood_point, deep_coeffs, fri_n,
                   query_positions, result, run, prev>>

\* Provable: the extension trace's column count (0 for None) is compared
\* with the AIR's.
AssertExtensionColumns ==
    /\ pc = "assert_ext"
    /\ pc' = IF ExtensionColumnsAssertion THEN "commit_ext" ELSE "aborted"
    /\ UNCHANGED <<outside, inputs, now, channel, transcript, challenges,
                   extension_trace, composition_coeffs, ood_point,
                   deep_coeffs, fri_n, query_positions, result, run, prev>>

\* CommitExtensionTrace committing a default root for None.
CommitExtensionTraceAlways ==
    /\ pc = "commit_ext"
    /\ LET root == IF extension_trace # <<>> THEN extension_commitment.root
                   ELSE 0
       IN  /\ channel' = [Reseed(channel, root) EXCEPT
                            !.extension_trace_commitment = <<root>>]
           /\ Log("commit_extension_trace", root)
    /\ pc' = "validate"
    /\ UNCHANGED <<outside, inputs, now, challenges, extension_trace,
                   composition_coeffs, ood_point, deep_coeffs, fri_n,
                   query_positions, result, run, prev>>

\* if let Some(t) = extension_trace_tree { channel.commit_extension_trace(t.root()) }
CommitExtensionTrace ==
    /\ pc = "commit_ext"
    /\ IF extension_trace # <<>>
       THEN /\ channel' = [Reseed(channel, extension_commitment.root) EXCEPT
                             !.extension_trace_commitment =
                                 <<extension_commitment.root>>]
            /\ Log("commit_extension_trace", extension_commitment.root)
       ELSE UNCHANGED <<channel, transcript>>
    /\ pc' = "validate"
    /\ UNCHANGED <<outside, inputs, now, challenges, extension_trace,
                   composition_coeffs, ood_point, deep_coeffs, fri_n,
                   query_positions, result, run, prev>>

\* #[cfg(debug_assertions)] validate_constraints
ValidateConstraints ==
    /\ pc = "validate"
    /\ pc' = IF debug_assertions
                /\ ~(IF impl = "Prover" THEN air_validate_constraints
                     ELSE validate_constraints)
             THEN "aborted" ELSE "comp_coeffs"
    /\ UNCHANGED <<outside, inputs, now, channel, transcript, challenges,
                   extension_trace, composition_coeffs, ood_point,
                   deep_coeffs, fri_n, query_positions, result, run, prev>>

\* GetCompositionCoeffs with the composition commitment left out.
GetCompositionCoeffsNoCommit ==
    /\ pc = "comp_coeffs"
    /\ ReadClock
    /\ composition_coeffs' = <<DrawValue(channel)>>
    /\ channel' = Reseed(channel, DrawValue(channel))
    /\ Log(OpCompositionCoeffs, DrawValue(channel))
    /\ pc' = "ood_point"
    /\ UNCHANGED <<outside, inputs, challenges, extension_trace, ood_point,
                   deep_coeffs, fri_n, query_positions, result, run, prev>>

\* channel.get_constraint_composition_coeffs() /
\* air.gen_composition_constraint_coeffs(public_coin)
GetCompositionCoeffs ==
    /\ pc = "comp_coeffs"
    /\ ReadClock
    /\ composition_coeffs' = <<DrawValue(channel)>>
    /\ channel' = Reseed(channel, DrawValue(channel))
    /\ Log(OpCompositionCoeffs, DrawValue(channel))
    /\ pc' = "commit_comp"
    /\ UNCHANGED <<outside, inputs, challenges, extension_trace, ood_point,
                   deep_coeffs, fri_n, query_positions, result, run, prev>>

\* CommitCompositionTrace with the root never handed to the channel.
CommitCompositionTraceDropped ==
    /\ pc = "commit_comp"
    /\ pc' = "ood_point"
    /\ UNCHANGED <<outside, inputs, now, channel, transcript, challenges,
                   extension_trace, composition_coeffs, ood_point,
                   deep_coeffs, fri_n, query_positions, result, run, prev>>

\* channel.commit_composition_trace(composition_trace_lde_tree.root())
CommitCompositionTrace ==
    /\ pc = "commit_comp"
    /\ LET root == commit_to_rows(composition_trace_lde)
       IN  /\ channel' = [Reseed(channel, root) EXCEPT
                            !.composition_trace_commitment = <<root>>]
           /\ Log("commit_composition_trace", root)
    /\ pc' = "ood_point"
    /\ UNCHANGED <<outside, inputs, now, challenges, extension_trace,
                   composition_coeffs, ood_point, deep_coeffs, fri_n,
                   query_positions, result, run, prev>>

\* channel.get_ood_point()
GetOodPoint ==
    /\ pc = "ood_point"
    /\ ReadClock
    /\ ood_point' = <<DrawValue(channel)>>
    /\ channel' = Reseed(channel, DrawValue(channel))
    /\ Log("get_ood_point", DrawValue(channel))
    /\ pc' = "ood_exec"
    /\ UNCHANGED <<outside, inputs, challenges, extension_trace, composition_coeffs,
                   deep_coeffs, fri_n, query_positions, result, run, prev>>

\* trace_domain.group_gen: the generator of the trace domain, an element
\* fixed by the trace length.
group_gen == Mix(witness.trace_len % Modulus, 7)

\* Matrix::evaluate_at(x): the values of every column's polynomial at x.
evaluate_at(polys, x) == Mix(Mix(polys.digest, polys.num_cols), x)

\* Felt::pow in the field of the digests.
RECURSIVE pow(_, _)
pow(base, exp) == IF exp = 0 THEN 1 ELSE (base * pow(base, exp - 1)) % Modulus

\* z raised to the number of columns of the composition trace.
z_n_composition_cols == pow(ood_point[1], composition_trace_polys.num_cols)

\* z.pow([execution_trace_polys.num_cols() as u64])
z_n == pow(ood_point[1], execution_trace_polys.num_cols)

\* execution_trace_polys.evaluate_at(z)
ood_execution_trace_evals == evaluate_at(execution_trace_polys, ood_point[1])

\* execution_trace_polys.evaluate_at(z * g)
ood_execution_trace_evals_next ==
    evaluate_at(execution_trace_polys, (ood_point[1] * group_gen) % Modulus)

\* The message of send_ood_trace_states: the openings at z and at z * g.
ood_trace_states ==
    Mix(ood_execution_trace_evals, ood_execution_trace_evals_next)

\* composition_trace_polys.evaluate_at(z_n)
ood_composition_trace_evals == evaluate_at(composition_trace_polys, z_n)

\* SendOodExecutionEvals sending the composition evaluations in the
\* execution evaluations' place.
SendOodExecutionEvalsSwapped ==
    /\ pc = "ood_exec"
    /\ channel' = Reseed(channel, ood_composition_trace_evals)
    /\ Log(OpOodComposition, ood_composition_trace_evals)
    /\ pc' = "ood_comp"
    /\ UNCHANGED <<outside, inputs, now, challenges, extension_trace,
                   composition_coeffs, ood_point, deep_coeffs, fri_n,
                   query_positions, result, run, prev>>

\* channel.send_ood_trace_states(evals, evals_next) /
\* channel.send_execution_trace_ood_evals(execution_trace_oods)
SendOodExecutionEvals ==
    /\ pc = "ood_exec"
    /\ LET states == ood_trace_states
       IN  /\ channel' = Reseed(channel, states)
           /\ Log(OpOodExecution, states)
    /\ pc' = "ood_comp"
    /\ UNCHANGED <<outside, inputs, now, challenges, extension_trace,
                   composition_coeffs, ood_point, deep_coeffs, fri_n,
                   query_positions, result, run, prev>>

\* channel.send_ood_constraint_evaluations(evals) /
\* channel.send_composition_trace_ood_evals(composition_trace_oods)
SendOodCompositionEvals ==
    /\ pc = "ood_comp"
    /\ LET evals == ood_composition_trace_evals
       IN  /\ channel' = Reseed(channel, evals)
           /\ Log(OpOodComposition, evals)
    /\ pc' = "deep_coeffs"
    /\ UNCHANGED <<outside, inputs, now, challenges, extension_trace,
                   composition_coeffs, ood_point, deep_coeffs, fri_n,
                   query_positions, result, run, prev>>

\* channel.get_deep_composition_coeffs() /
\* air.gen_deep_composition_coeffs(public_coin); the DEEP composition
\* polynomial's LDE is handed to the FRI prover.
GetDeepCompositionCoeffs ==
    /\ pc = "deep_coeffs"
    /\ ReadClock
    /\ deep_coeffs' = <<DrawValue(channel)>>
    /\ channel' = Reseed(channel, DrawValue(channel))
    /\ Log(OpDeepCoeffs, DrawValue(channel))
    /\ fri_n' = lde_domain_size
    /\ pc' = "fri_layers"
    /\ UNCHANGED <<outside, inputs, challenges, extension_trace, composition_coeffs,
                   ood_point, query_positions, result, run, prev>>

\* FriOptions::num_layers condition: another layer is folded.
FriHasNextLayer == fri_n > FriMaxRemainderSize

\* fri_prover.build_layers, one layer: the layer's root is committed, the
\* folding randomness is drawn, the layer is folded.
FriBuildLayer ==
    /\ pc = "fri_layers"
    /\ FriHasNextLayer
    /\ LET root == Mix(Mix(deep_coeffs[1], fri_n % Modulus), channel.fri_layers)
           committed == Reseed(channel, root)
           alpha == DrawValue(committed)
       IN  /\ channel' = [Reseed(committed, alpha) EXCEPT !.fri_layers = @ + 1]
           /\ transcript' = transcript \o <<Entry("commit_fri_layer", root),
                                           Entry("draw_fri_alpha", alpha)>>
    /\ fri_n' = fri_n \div FriFoldingFactor
    /\ UNCHANGED <<outside, inputs, pc, now, challenges, extension_trace,
                   composition_coeffs, ood_point, deep_coeffs,
                   query_positions, result, run, prev>>

\* fri_prover.build_layers, the end: the remainder is committed.
FriCommitRemainder ==
    /\ pc = "fri_layers"
    /\ ~FriHasNextLayer
    /\ LET remainder == Mix(deep_coeffs[1], fri_n)
       IN  /\ channel' = Reseed(channel, remainder)
           /\ Log("commit_fri_remainder", remainder)
    /\ pc' = "grind"
    /\ UNCHANGED <<outside, inputs, now, challenges, extension_trace,
                   composition_coeffs, ood_point, deep_coeffs, fri_n,
                   query_positions, result, run, prev>>

\* GrindFriCommitments with the call of the channel left out.
GrindFriCommitmentsDropped ==
    /\ pc = "grind"
    /\ pc' = "queries"
    /\ UNCHANGED <<outside, inputs, now, channel, transcript, challenges,
                   extension_trace, composition_coeffs, ood_point,
                   deep_coeffs, fri_n, query_positions, result, run, prev>>

\* channel.grind_fri_commitments(): the proof-of-work nonce is found and
\* absorbed.
GrindFriCommitments ==
    /\ pc = "grind"
    /\ LET nonce == Mix(channel.public_coin, 5)
       IN  /\ channel' = [Reseed(channel, nonce) EXCEPT !.pow_nonce = <<nonce>>]
           /\ Log("grind_fri_commitments", nonce)
    /\ pc' = "queries"
    /\ UNCHANGED <<outside, inputs, now, challenges, extension_trace,
                   composition_coeffs, ood_point, deep_coeffs, fri_n,
                   query_positions, result, run, prev>>

\* channel.get_fri_query_positions()
GetFriQueryPositions ==
    /\ pc = "queries"
    /\ query_positions' = <<DrawValue(channel) % lde_domain_size>>
    /\ Log("get_fri_query_positions", DrawValue(channel) % lde_domain_size)
    /\ pc' = "build_proof"
    /\ UNCHANGED <<outside, inputs, now, channel, challenges, extension_trace,
                   composition_coeffs, ood_point, deep_coeffs, fri_n,
                   result, run, prev>>

\* fri_prover.into_proof(&query_positions)
into_proof(positions) ==
    [layers |-> channel.fri_layers, positions |-> positions]

\* Queries::new opening the trace one position further on.
QueriesShifted(positions) ==
    [positions |-> [k \in DOMAIN positions |->
                       (positions[k] + 1) % lde_domain_size],
     extension |-> channel.extension_trace_commitment # <<>>]

\* Queries::new(.., &query_positions): the trace openings.
Queries(positions) ==
    [positions |-> positions,
     extension |-> channel.extension_trace_commitment # <<>>]

\* The Proof that channel.build_proof(queries, fri_proof) assembles.
Proof(queries, fri_proof) ==
    [options |-> options,
     trace_info |-> witness.trace_len,
     base_trace_commitment |-> channel.base_trace_commitment,
     extension_trace_commitment |-> channel.extension_trace_commitment,
     composition_trace_commitment |-> channel.composition_trace_commitment,
     pow_nonce |-> channel.pow_nonce,
     fri_proof |-> fri_proof,
     trace_queries |-> queries]

\* Ok(channel.build_proof(queries, fri_proof))
BuildProof ==
    /\ pc = "build_proof"
    /\ ReadClock
    /\ result' = <<Proof(Queries(query_positions), into_proof(query_positions))>>
    /\ Log("build_proof", 0)
    /\ pc' = "done"
    /\ UNCHANGED <<outside, inputs, channel, challenges, extension_trace,
                   composition_coeffs, ood_point, deep_coeffs, fri_n,
                   query_positions, run, prev>>

\* generate_proof has returned or panicked.
Ended == pc \in {"done", "aborted"}

\* The caller calls generate_proof again with the same options and witness,
\* on a fresh channel.
CallAgain ==
    /\ Ended
    /\ run + 1 \in Runs
    /\ prev' = <<[outcome |-> pc, transcript |-> transcript, result |-> result]>>
    /\ run' = run + 1
    /\ pc' = "start"
    /\ channel' = NewChannel
    /\ transcript' = <<>>
    /\ challenges' = <<>>
    /\ extension_trace' = <<>>
    /\ composition_coeffs' = <<>>
    /\ ood_point' = <<>>
    /\ deep_coeffs' = <<>>
    /\ fri_n' = 0
    /\ query_positions' = <<>>
    /\ result' = <<>>
    /\ UNCHANGED <<outside, inputs, now>>

Next ==
    \/ NewAir
    \/ CheckBlowup
    \/ AssertBaseColumns
    \/ CommitBaseTrace
    \/ GetChallenges
    \/ BuildExtensionColumns
    \/ AssertExtensionColumns
    \/ CommitExtensionTrace
    \/ ValidateConstraints
    \/ GetCompositionCoeffs
    \/ CommitCompositionTrace
    \/ GetOodPoint
    \/ SendOodExecutionEvals
    \/ SendOodCompositionEvals
    \/ GetDeepCompositionCoeffs
    \/ FriBuildLayer
    \/ FriCommitRemainder
    \/ GrindFriCommitments
    \/ GetFriQueryPositions
    \/ BuildProof
    \/ CallAgain

Spec == Init /\ [][Next]_vars

\* generate_proof is sequential code: a step that can be taken is taken.
FairSpec == Spec /\ WF_vars(Next)

\* ------------------------------------------------- transcript helpers

\* The places of operation op in the transcript.
Pos(op) == {i \in 1..Len(transcript) : transcript[i].op = op}

Happened(op) == Pos(op) # {}

\* Every occurrence of b comes after some occurrence of a.
OnlyAfter(b, a) == \A j \in Pos(b) : \E i \in Pos(a) : i < j

IsPrefix(s, t) == Len(s) <= Len(t) /\ SubSeq(t, 1, Len(s)) = s

\* The operations that squeeze randomness out of the channel.
SqueezeOps ==
    {OpChallenges, OpCompositionCoeffs, "get_ood_point", OpDeepCoeffs,
     "draw_fri_alpha", "get_fri_query_positions"}

\* The transcript state an operation leads to ("": it leaves the state).
StateAfter(op) ==
    CASE op = "commit_base_trace" -> "BaseCommitted"
      [] op = OpChallenges -> "ChallengesDrawn"
      [] op = "commit_extension_trace" -> "ExtensionCommitted"
      [] op = "commit_composition_trace" -> "CompositionCommitted"
      [] op = "get_ood_point" -> "OodDrawn"
      [] op = OpOodComposition -> "OodEvalsSent"
      [] op = OpDeepCoeffs -> "DeepCoeffsDrawn"
      [] op \in {"commit_fri_layer", "draw_fri_alpha", "commit_fri_remainder"}
           -> "FriCommitted"
      [] op = "grind_fri_commitments" -> "Grinded"
      [] op = "get_fri_query_positions" -> "QueriesDrawn"
      [] op = "build_proof" -> "ProofBuilt"
      [] OTHER -> ""

\* The transcript states a sequence of operations goes through.
RECURSIVE Trail(_)
Trail(tr) ==
    IF tr = <<>> THEN <<"Init">>
    ELSE LET before == Trail(SubSeq(tr, 1, Len(tr) - 1))
             st == StateAfter(tr[Len(tr)].op)
         IN  IF st = "" \/ st = before[Len(before)] THEN before
             ELSE Append(before, st)

TailStates ==
    <<"CompositionCommitted", "OodDrawn", "OodEvalsSent", "DeepCoeffsDrawn",
      "FriCommitted", "Grinded", "QueriesDrawn", "ProofBuilt">>

\* The order of the specification's state machine.
SpecOrder(with_extension) ==
    <<"Init", "BaseCommitted">>
    \o (IF with_extension THEN <<"ExtensionCommitted">> ELSE <<>>)
    \o <<"ChallengesDrawn">> \o TailStates

\* The order with the challenges drawn before the extension commitment.
CodeOrder(with_extension) ==
    <<"Init", "BaseCommitted", "ChallengesDrawn">>
    \o (IF with_extension THEN <<"ExtensionCommitted">> ELSE <<>>)
    \o TailStates

\* -------------------------------------------------------------- claims

\* C1 (as stated): every run goes through Init, BaseCommitted, optional
\* ExtensionCommitted, ChallengesDrawn, CompositionCommitted, OodDrawn,
\* OodEvalsSent, DeepCoeffsDrawn, FriCommitted, Grinded, QueriesDrawn,
\* ProofBuilt in this order; an extension trace's root is absorbed before
\* the AIR challenges are drawn.
C1_SpecOrder ==
    /\ \/ IsPrefix(Trail(transcript), SpecOrder(TRUE))
       \/ IsPrefix(Trail(transcript), SpecOrder(FALSE))
    /\ OnlyAfter(OpChallenges, "commit_base_trace")
    /\ Happened("commit_extension_trace")
         => \A i \in Pos("commit_extension_trace") :
              \A j \in Pos(OpChallenges) : i < j

\* C1 (amended): every run goes through Init, BaseCommitted,
\* ChallengesDrawn, optional ExtensionCommitted, CompositionCommitted,
\* OodDrawn, OodEvalsSent, DeepCoeffsDrawn, FriCommitted, Grinded,
\* QueriesDrawn, ProofBuilt in this order (an aborted run stops on the
\* way, a returning run goes through all of them); an extension trace's
\* root is absorbed after the AIR challenges are drawn.
C1_CodeOrder ==
    /\ IsPrefix(Trail(transcript), CodeOrder(Happened("commit_extension_trace")))
    /\ pc = "done"
         => Trail(transcript) = CodeOrder(extension_trace # <<>>)
    /\ \A i \in Pos("commit_extension_trace") :
         \E j \in Pos(OpChallenges) : j < i

\* C1 witness: a run with an extension trace has returned its proof.
C1_Witness == pc = "done" /\ extension_trace # <<>>

\* C2: the first transcript operation is commit_base_trace; nothing is
\* squeezed before the base trace root has been absorbed.
C2_BaseCommitFirst ==
    /\ transcript # <<>> => transcript[1].op = "commit_base_trace"
    /\ \A op \in SqueezeOps : OnlyAfter(op, "commit_base_trace")
    /\ \A x \in {challenges, composition_coeffs, ood_point, deep_coeffs,
                 query_positions} :
         x # <<>> => channel.base_trace_commitment # <<>>

\* C2 witness: the challenges have been drawn.
C2_Witness == challenges # <<>> /\ Happened(OpChallenges)

\* C3: extension columns are built from the challenges squeezed after the
\* base trace root was absorbed, and the extension trace root is absorbed
\* before the composition coefficients are squeezed.
C3_ExtensionOrder ==
    extension_trace # <<>> =>
        /\ \E i \in Pos("commit_base_trace") : \E j \in Pos(OpChallenges) :
             /\ i < j
             /\ challenges = <<transcript[j].val>>
             /\ extension_trace =
                    build_extension_columns(witness, transcript[j].val)
        /\ OnlyAfter(OpCompositionCoeffs, "commit_extension_trace")
        /\ composition_coeffs # <<>> => channel.extension_trace_commitment # <<>>

\* C3 witness: the composition coefficients were drawn in a run with an
\* extension trace.
C3_Witness == extension_trace # <<>> /\ composition_coeffs # <<>>

\* C4: the out-of-domain point is squeezed only after the composition
\* trace root has been absorbed, and that root only after the composition
\* coefficients were squeezed.
C4_OodAfterComposition ==
    /\ OnlyAfter("get_ood_point", "commit_composition_trace")
    /\ OnlyAfter("commit_composition_trace", OpCompositionCoeffs)
    /\ ood_point # <<>> => channel.composition_trace_commitment # <<>>
    /\ channel.composition_trace_commitment # <<>> => composition_coeffs # <<>>

\* C4 witness: the out-of-domain point has been drawn.
C4_Witness == ood_point # <<>> /\ Happened("get_ood_point")

\* C5: the out-of-domain evaluations of the execution trace are absorbed
\* first, those of the composition trace second, and the DEEP coefficients
\* are squeezed only after both.
C5_OodEvalsOrder ==
    /\ OnlyAfter(OpOodComposition, OpOodExecution)
    /\ OnlyAfter(OpOodExecution, "get_ood_point")
    /\ OnlyAfter(OpDeepCoeffs, OpOodExecution)
    /\ OnlyAfter(OpDeepCoeffs, OpOodComposition)
    /\ Cardinality(Pos(OpOodExecution)) <= 1
    /\ Cardinality(Pos(OpOodComposition)) <= 1

\* C5 witness: the DEEP coefficients have been drawn.
C5_Witness == deep_coeffs # <<>> /\ Happened(OpDeepCoeffs)

\* The last steps of the pipeline happen once each and in order.
C6_Order ==
    /\ OnlyAfter("grind_fri_commitments", "commit_fri_remainder")
    /\ OnlyAfter("get_fri_query_positions", "grind_fri_commitments")
    /\ OnlyAfter("build_proof", "get_fri_query_positions")
    /\ \A op \in {"grind_fri_commitments", "get_fri_query_positions",
                  "build_proof"} : Cardinality(Pos(op)) <= 1
    /\ \A i \in Pos("commit_fri_layer") \cup Pos("commit_fri_remainder") :
         \A j \in Pos("grind_fri_commitments") : i < j
    /\ Happened("build_proof")
         => transcript[Len(transcript)].op = "build_proof" /\ pc = "done"
    /\ pc = "done" => Happened("build_proof") /\ result # <<>>

\* The inputs on which one of generate_proof's assertions fails.
AssertionFires ==
    IF impl = "Prover"
    THEN \/ airConfig.ce_blowup_factor > options.blowup_factor
         \/ debug_assertions /\ ~witness.valid
    ELSE \/ airConfig.NUM_BASE_COLUMNS # witness.base_cols
         \/ airConfig.NUM_EXTENSION_COLUMNS # witness.ext_cols

\* C6: after the FRI layers are built, grind_fri_commitments, then
\* get_fri_query_positions, then build_proof happen once each in this
\* order; build_proof is the last transcript operation, and every run in
\* which no assertion fires reaches it.
C6_GrindQueriesProof ==
    /\ [](C6_Order)
    /\ (pc = "start" /\ ~AssertionFires) ~> (pc = "done")
    /\ [](pc = "aborted" => AssertionFires)

\* C6 witness: the proof is built after grinding and the queries.
C6_Witness ==
    /\ pc = "done"
    /\ Happened("grind_fri_commitments")
    /\ Happened("commit_fri_layer")
    /\ transcript[Len(transcript)].op = "build_proof"

OtherSteps ==
    {"commit_base_trace", OpChallenges, OpCompositionCoeffs,
     "commit_composition_trace", "get_ood_point", OpOodExecution,
     OpOodComposition, OpDeepCoeffs, "commit_fri_remainder",
     "grind_fri_commitments",
     "get_fri_query_positions", "build_proof"}

\* C8: when the witness builds no extension columns, commit_extension_trace
\* is never called, the proof carries no extension trace root, and every
\* other step of the pipeline has run when the proof is returned.
C8_NoExtension ==
    witness.ext_cols = 0 =>
        /\ ~Happened("commit_extension_trace")
        /\ channel.extension_trace_commitment = <<>>
        /\ pc = "done" =>
             /\ result[1].extension_trace_commitment = <<>>
             /\ ~result[1].trace_queries.extension
             /\ \A op \in OtherSteps : Happened(op)

\* C8 witness: a run without extension columns has returned its proof.
C8_Witness == witness.ext_cols = 0 /\ extension_trace = <<>> /\ pc = "done"

\* C9: Provable::generate_proof absorbs no trace root for a matrix whose
\* column count differs from the AIR's: a base trace with num_cols #
\* NUM_BASE_COLUMNS aborts before commit_base_trace, an extension trace
\* with column count (0 when absent) # NUM_EXTENSION_COLUMNS aborts before
\* commit_extension_trace.
C9_ColumnCounts ==
    impl = "Provable" =>
        /\ Happened("commit_base_trace")
             => airConfig.NUM_BASE_COLUMNS = base_columns(witness).num_cols
        /\ Happened("commit_extension_trace")
             => /\ extension_trace # <<>>
                /\ airConfig.NUM_EXTENSION_COLUMNS = extension_trace[1].num_cols
        /\ airConfig.NUM_BASE_COLUMNS # witness.base_cols
             => transcript = <<>> /\ pc \in {"start", "assert_base", "aborted"}
        /\ airConfig.NUM_EXTENSION_COLUMNS # witness.ext_cols
             => /\ ~Happened("commit_extension_trace")
                /\ ~Happened(OpCompositionCoeffs)
                /\ pc \in {"start", "assert_base", "commit_base", "challenges",
                           "build_ext", "assert_ext", "aborted"}

\* C9 witness: Provable::generate_proof has aborted on the extension
\* trace's column count, the base trace being committed.
C9_Witness ==
    /\ impl = "Provable"
    /\ pc = "aborted"
    /\ Happened("commit_base_trace")
    /\ airConfig.NUM_EXTENSION_COLUMNS # num_extension_cols

\* C10: whenever ce_blowup_factor exceeds lde_blowup_factor the run aborts
\* before any commitment is absorbed into the channel.
C10_BlowupEnforced ==
    airConfig.ce_blowup_factor > options.blowup_factor =>
        /\ ~Happened("commit_base_trace")
        /\ channel.base_trace_commitment = <<>>
        /\ pc # "done"

\* C27 (as stated): the composition_trace_polys matrix built from the
\* composition polynomial's coefficient vector has ce_blowup_factor
\* columns and every column holds n coefficients, n the trace length, for
\* every ce_blowup_factor <= lde_blowup_factor.
C27_SegmentsHoldTraceLen ==
    (impl = "Provable" /\ composition_coeffs # <<>> /\ BlowupAssertion) =>
        /\ composition_trace_polys.num_cols = airConfig.ce_blowup_factor
        /\ composition_trace_polys.num_rows = witness.trace_len

\* C27 (amended): the matrix has ce_blowup_factor columns and every column
\* holds n * lde_blowup_factor / ce_blowup_factor coefficients, which is n
\* exactly when the two factors are equal; row j of column k holds
\* coefficient j * ce_blowup_factor + k, so the rows from n on hold the
\* coefficients of index n * ce_blowup_factor and more.
C27_SegmentsHoldLdeOverCe ==
    (impl = "Provable" /\ composition_coeffs # <<>> /\ BlowupAssertion) =>
        LET polys == composition_trace_polys
            n == witness.trace_len
            ce == airConfig.ce_blowup_factor
        IN  /\ polys.num_cols = ce
            /\ polys.num_rows * ce = n * options.blowup_factor
            /\ polys.num_rows = n <=> ce = options.blowup_factor
            /\ \A j \in 0..(polys.num_rows - 1) : \A k \in 0..(ce - 1) :
                 /\ coefficient_index(j, k) < n * options.blowup_factor
                 /\ coefficient_index(j, k) < n * ce <=> j < n

\* C27 witness: the composition trace of a run with ce_blowup_factor below
\* lde_blowup_factor has been committed.
C27_Witness ==
    /\ impl = "Provable"
    /\ channel.composition_trace_commitment # <<>>
    /\ airConfig.ce_blowup_factor < options.blowup_factor
    /\ composition_trace_polys.num_rows = 2 * witness.trace_len

\* The number of execution trace columns: base plus extension.
NumExecutionColumns == base_columns(witness).num_cols + num_extension_cols

\* C28: generate_proof opens every execution trace polynomial (base and
\* extension columns together) at z and at z * g, g the generator of the
\* trace domain, and every composition trace segment at z^m, m the number
\* of execution trace columns.
C28_OodOpenings ==
    impl = "Prover" =>
        /\ \A i \in Pos(OpOodExecution) :
             /\ execution_trace_polys.num_cols = NumExecutionColumns
             /\ transcript[i].val =
                  Mix(evaluate_at(execution_trace_polys, ood_point[1]),
                      evaluate_at(execution_trace_polys,
                                  (ood_point[1] * group_gen) % Modulus))
        /\ \A i \in Pos(OpOodComposition) :
             transcript[i].val =
                 evaluate_at(composition_trace_polys,
                             pow(ood_point[1], NumExecutionColumns))

\* C28 witness: a run with three execution trace columns has sent the
\* composition openings at a z whose cube is neither z nor z's power of
\* the number of segments.
C28_Witness ==
    /\ impl = "Prover"
    /\ Happened(OpOodComposition)
    /\ extension_trace # <<>>
    /\ NumExecutionColumns = 3
    /\ pow(ood_point[1], 3) # ood_point[1]
    /\ pow(ood_point[1], 3) # z_n_composition_cols

\* C29: within one run the query positions are squeezed exactly once,
\* after grinding, and the same list is used for the FRI proof openings
\* (into_proof) and for the trace openings (Queries::new); no opening is
\* made at a position outside that list.
C29_OneQueryList ==
    /\ Cardinality(Pos("get_fri_query_positions")) <= 1
    /\ OnlyAfter("get_fri_query_positions", "grind_fri_commitments")
    /\ pc = "done" =>
         /\ Cardinality(Pos("get_fri_query_positions")) = 1
         /\ \A i \in Pos("get_fri_query_positions") :
              query_positions = <<transcript[i].val>>
         /\ result[1].fri_proof.positions = query_positions
         /\ result[1].trace_queries.positions = query_positions

\* C29 witness: a run has returned a proof opened at a squeezed position.
C29_Witness ==
    /\ pc = "done"
    /\ Len(query_positions) = 1
    /\ result[1].trace_queries.positions = query_positions
    /\ query_positions[1] > 0

\* ================================================== ProofOptions::new

\* u8::MAX: num_queries, blowup_factor and grinding_factor are u8.
U8Max == 255

MIN_NUM_QUERIES == 1
MAX_NUM_QUERIES == 128
MIN_BLOWUP_FACTOR == 2
MAX_BLOWUP_FACTOR == 64

\* The largest grinding factor the specification allows.
SpecMaxGrindingFactor == 64

\* The grinding factors tried: the ends of the specification's range, the
\* first value past it, and the largest u8.
GrindingFactors == {0, SpecMaxGrindingFactor, SpecMaxGrindingFactor + 1, U8Max}

\* The numbers of queries tried: both ends of [1, 128], their neighbours,
\* one value inside and the largest u8.
NumQueries ==
    {0, MIN_NUM_QUERIES, MIN_NUM_QUERIES + 1, 32, MAX_NUM_QUERIES - 1,
     MAX_NUM_QUERIES, MAX_NUM_QUERIES + 1, U8Max}

\* The calls tried: every u8 as blowup_factor.
NewArgs ==
    [num_queries : NumQueries, blowup_factor : 0..U8Max,
     grinding_factor : GrindingFactors]

\* u8::count_ones: the number of set bits.
RECURSIVE count_ones(_)
count_ones(x) == IF x = 0 THEN 0 ELSE (x % 2) + count_ones(x \div 2)

\* u8::is_power_of_two
is_power_of_two(x) == count_ones(x) = 1

\* The assertions of ProofOptions::new without the power-of-two check.
NewAssertionsNoPowerOfTwo ==
    /\ new_args.num_queries >= MIN_NUM_QUERIES
    /\ new_args.num_queries <= MAX_NUM_QUERIES
    /\ new_args.blowup_factor >= MIN_BLOWUP_FACTOR
    /\ new_args.blowup_factor <= MAX_BLOWUP_FACTOR

\* The five assertions of ProofOptions::new.
NewAssertions ==
    /\ new_args.num_queries >= MIN_NUM_QUERIES
    /\ new_args.num_queries <= MAX_NUM_QUERIES
    /\ is_power_of_two(new_args.blowup_factor)
    /\ new_args.blowup_factor >= MIN_BLOWUP_FACTOR
    /\ new_args.blowup_factor <= MAX_BLOWUP_FACTOR

\* ProofOptions { num_queries, blowup_factor, grinding_factor }
ProofOptions ==
    [num_queries |-> new_args.num_queries,
     blowup_factor |-> new_args.blowup_factor,
     grinding_factor |-> new_args.grinding_factor]

\* ProofOptions::new(num_queries, blowup_factor, grinding_factor): a failed
\* assertion panics, otherwise the struct is returned.
ProofOptionsNew ==
    /\ new_pc = "call"
    /\ IF NewAssertions
       THEN proof_options' = <<ProofOptions>> /\ new_pc' = "returned"
       ELSE proof_options' = <<>> /\ new_pc' = "panicked"
    /\ UNCHANGED <<new_args, pipeline, tblvars, csvars, memvars, fibvars, bfvars>>

OptionsInit ==
    /\ new_args \in NewArgs
    /\ new_pc = "call"
    /\ proof_options = <<>>
    /\ PipelineIdle
    /\ MemoryIdle
    /\ FibIdle
    /\ BrainfuckIdle
    /\ TableIdle
    /\ ConstraintsIdle

OptionsNext == ProofOptionsNew

OptionsSpec == OptionsInit /\ [][OptionsNext]_vars

\* The blowup factors the specification allows: powers of two in [2, 64].
SpecBlowupFactors == {2, 4, 8, 16, 32, 64}

\* C11: ProofOptions::new returns a ProofOptions exactly for
\* 1 <= num_queries <= 128 and blowup_factor a power of two in [2, 64], the
\* value carrying the arguments; every other call is rejected and produces
\* no ProofOptions.
C11_OptionsAccepted ==
    new_pc \in {"returned", "panicked"} =>
        /\ new_pc = "returned"
             <=> /\ new_args.num_queries \in 1..128
                 /\ new_args.blowup_factor \in SpecBlowupFactors
        /\ new_pc = "returned" => proof_options = <<new_args>>
        /\ new_pc = "panicked" => proof_options = <<>>

\* C11 witness: blowup_factor = 3 has been rejected with num_queries in
\* range.
C11_Witness ==
    /\ new_pc = "panicked"
    /\ new_args.blowup_factor = 3
    /\ new_args.num_queries = 32
    /\ proof_options = <<>>

\* C12: every ProofOptions constructed has grinding_factor in 0..=64.
C12_GrindingBounded ==
    proof_options # <<>> =>
        proof_options[1].grinding_factor \in 0..SpecMaxGrindingFactor

\* ================================= generate_proof: failures and debug

\* generate_proof has unwound by a panic of assert!, assert_eq! or unwrap.
Panicked == pc = "aborted"

\* C13: every failing run of Provable::generate_proof is reported to the
\* caller as an Err(ProvingError) return, so no run unwinds by a panic, and
\* a failing run produces no Proof.
C13_FailureIsErr ==
    impl = "Provable" =>
        /\ ~Panicked
        /\ AssertionFires => result = <<>>

\* C14: in a debug build, Provable::generate_proof on a witness some
\* constraint of which does not vanish on its rows aborts inside
\* validate_constraints: the composition coefficients are never squeezed,
\* no composition root is absorbed, no proof is returned.
C14_DebugValidationAborts ==
    (impl = "Provable" /\ debug_assertions /\ ~witness.valid) =>
        /\ ~Happened(OpCompositionCoeffs)
        /\ ~Happened("commit_composition_trace")
        /\ channel.composition_trace_commitment = <<>>
        /\ pc # "done"

\* ======================================================== MemoryTable

\* Largest number of rows of a processor matrix.
MaxProcRows == 4

\* Memory values, and the PERMUTATION entries of a first row, tried.
MemVals == {0, 1}
PermutationEntries == {0, 1, 2}

\* A row of the processor table, by the columns derive_matrix reads.
ProcRow(cycle, mp, mem_val, curr_instr) ==
    [CYCLE |-> cycle, MP |-> mp, MEM_VAL |-> mem_val, CURR_INSTR |-> curr_instr]

\* The processor matrices of an execution: the row of cycle c is row c, the
\* memory pointer starts at 0 and moves by at most one cell a cycle, and the
\* rows after the last executed instruction have CURR_INSTR = 0.
ProcessorMatrices ==
    UNION {
        { [c \in 1..n |->
              ProcRow(c - 1, mps[c], vals[c], IF c <= executed THEN 1 ELSE 0)] :
          mps \in { f \in [1..n -> 0..(MaxProcRows - 1)] :
                      /\ n > 0 => f[1] = 0
                      /\ \A c \in 1..(n - 1) : f[c + 1] - f[c] \in {-1, 0, 1} },
          vals \in [1..n -> MemVals],
          executed \in 0..n }
        : n \in 0..MaxProcRows }

\* A row of the memory table: [E; BASE_WIDTH].
MemRow(cycle, mp, mem_val, dummy) ==
    [CYCLE |-> cycle, MP |-> mp, MEM_VAL |-> mem_val, DUMMY |-> dummy]

\* The filter_map of derive_matrix: the rows whose CURR_INSTR is not zero,
\* as (CYCLE, MP, MEM_VAL, 0).
RECURSIVE filter_map(_)
filter_map(rows) ==
    IF rows = <<>> THEN <<>>
    ELSE LET row == Head(rows)
         IN  (IF row.CURR_INSTR = 0 THEN <<>>
              ELSE <<MemRow(row.CYCLE, row.MP, row.MEM_VAL, 0)>>)
             \o filter_map(Tail(rows))

\* Vec::insert(index, element), index counted from 0.
insert(m, index, element) ==
    SubSeq(m, 1, index) \o <<element>> \o SubSeq(m, index + 1, Len(m))

\* A sort by MP that puts a row before the rows of equal key.
RECURSIVE sort_unstable_by_key(_)
sort_unstable_by_key(rows) ==
    IF rows = <<>> THEN <<>>
    ELSE LET sorted == sort_unstable_by_key(SubSeq(rows, 1, Len(rows) - 1))
             row == rows[Len(rows)]
             before == Cardinality({j \in 1..Len(sorted) : sorted[j].MP < row.MP})
         IN  insert(sorted, before, row)

\* matrix.sort_by_key(|row| row[MP]): a stable sort, a row goes behind the
\* rows of smaller or equal key that come before it.
RECURSIVE sort_by_key(_)
sort_by_key(rows) ==
    IF rows = <<>> THEN <<>>
    ELSE LET sorted == sort_by_key(SubSeq(rows, 1, Len(rows) - 1))
             row == rows[Len(rows)]
             before == Cardinality({j \in 1..Len(sorted) : sorted[j].MP <= row.MP})
         IN  insert(sorted, before, row)

\* A dummy row that repeats the current row's cycle.
dummy_row_same_cycle(curr_row) ==
    MemRow(curr_row.CYCLE, curr_row.MP, curr_row.MEM_VAL, 1)

\* The row derive_matrix inserts behind curr_row.
dummy_row(curr_row) ==
    MemRow(curr_row.CYCLE + 1, curr_row.MP, curr_row.MEM_VAL, 1)

\* derive_matrix up to the loop: the executed rows are copied and sorted.
\* The range of the loop, 0..matrix.len() - 1, is fixed here; on an empty
\* vector the subtraction overflows (debug) or the first index is out of
\* bounds (release): a panic in both.
CopyAndSort ==
    /\ mem_pc = "call"
    /\ matrix' = sort_by_key(filter_map(processor_matrix))
    /\ loop_i' = 0
    /\ IF matrix' = <<>>
       THEN loop_end' = 0 /\ mem_pc' = "panicked"
       ELSE loop_end' = Len(matrix') - 1 /\ mem_pc' = "loop"
    /\ UNCHANGED <<processor_matrix, first_row, pipeline, tblvars, csvars, optvars, fibvars,
                   bfvars>>

\* One pass of the loop body: a dummy row is inserted behind row i when row
\* i + 1 has the same MP and not the next cycle.
InsertDummyRow ==
    /\ mem_pc = "loop"
    /\ loop_i < loop_end
    /\ LET curr_row == matrix[loop_i + 1]
           next_row == matrix[loop_i + 2]
       IN  matrix' = IF /\ curr_row.MP = next_row.MP
                        /\ curr_row.CYCLE + 1 # next_row.CYCLE
                     THEN insert(matrix, loop_i + 1, dummy_row(curr_row))
                     ELSE matrix
    /\ loop_i' = loop_i + 1
    /\ UNCHANGED <<processor_matrix, loop_end, mem_pc, first_row, pipeline, tblvars, csvars,
                   optvars, fibvars, bfvars>>

\* The range is exhausted: derive_matrix returns matrix.
ReturnMatrix ==
    /\ mem_pc = "loop"
    /\ loop_i = loop_end
    /\ mem_pc' = "returned"
    /\ UNCHANGED <<processor_matrix, matrix, loop_i, loop_end, first_row,
                   pipeline, tblvars, csvars, optvars, fibvars, bfvars>>

\* The table is extended: the first row gets its PERMUTATION entry, which
\* the prover supplies.
ExtendFirstRow ==
    /\ mem_pc = "returned"
    /\ \E permutation \in PermutationEntries :
         first_row' = <<[CYCLE |-> matrix[1].CYCLE, MP |-> matrix[1].MP,
                         MEM_VAL |-> matrix[1].MEM_VAL,
                         DUMMY |-> matrix[1].DUMMY,
                         PERMUTATION |-> permutation]>>
    /\ mem_pc' = "extended"
    /\ UNCHANGED <<processor_matrix, matrix, loop_i, loop_end, pipeline, tblvars, csvars,
                   optvars, fibvars, bfvars>>

\* MemoryTable::transition_constraints at a pair of rows: the values of
\* the six polynomials.
transition_constraints(row, next) ==
    <<(next.MP - row.MP - 1) * (next.MP - row.MP),
      (next.MP - row.MP) * next.MEM_VAL,
      (next.DUMMY - 1) * next.DUMMY,
      (next.MP - row.MP) * row.DUMMY,
      (next.MEM_VAL - row.MEM_VAL) * row.DUMMY,
      (next.MP - row.MP - 1) * (next.CYCLE - row.CYCLE - 1)>>

\* MemoryTable::extension_boundary_constraints at a row: the values of the
\* polynomials of the vector.
extension_boundary_constraints(row) == <<row.CYCLE, row.MP, row.MEM_VAL>>

MemoryInit ==
    /\ processor_matrix \in ProcessorMatrices
    /\ matrix = <<>>
    /\ loop_i = 0
    /\ loop_end = 0
    /\ mem_pc = "call"
    /\ first_row = <<>>
    /\ PipelineIdle
    /\ OptionsIdle
    /\ FibIdle
    /\ BrainfuckIdle
    /\ TableIdle
    /\ ConstraintsIdle

MemoryNext ==
    \/ CopyAndSort
    \/ InsertDummyRow
    \/ ReturnMatrix
    \/ ExtendFirstRow

MemorySpec == MemoryInit /\ [][MemoryNext]_vars

\* derive_matrix has returned its matrix.
Derived == mem_pc \in {"returned", "extended"}

\* The places of a sequence of rows.
Rows(m) == 1..Len(m)

\* C15: the extension boundary constraints all vanish on a first row
\* exactly when CYCLE, MP and MEM_VAL are zero and PERMUTATION is one.
C15_PermutationBoundary ==
    first_row # <<>> =>
        LET row == first_row[1]
            values == extension_boundary_constraints(row)
        IN  (\A k \in DOMAIN values : values[k] = 0)
            <=> /\ row.CYCLE = 0
                /\ row.MP = 0
                /\ row.MEM_VAL = 0
                /\ row.PERMUTATION = 1

\* C18: in derive_matrix's output every pair of consecutive rows with
\* equal MP has CYCLE_next = CYCLE + 1, and transition constraint 7
\* vanishes on every consecutive pair.
C18_ClockJumpsFilled ==
    Derived =>
        \A j \in Rows(matrix) \ {Len(matrix)} :
            /\ matrix[j].MP = matrix[j + 1].MP
                 => matrix[j + 1].CYCLE = matrix[j].CYCLE + 1
            /\ transition_constraints(matrix[j], matrix[j + 1])[6] = 0

\* The rows of the given MPs, by MP and within an MP in the given order.
RECURSIVE ByMP(_, _)
ByMP(rows, mps) ==
    IF mps = {} THEN <<>>
    ELSE LET least == CHOOSE mp \in mps : \A other \in mps : mp <= other
         IN  SelectSeq(rows, LAMBDA row : row.MP = least)
             \o ByMP(rows, mps \ {least})

\* The executed rows of the processor matrix as (CYCLE, MP, MEM_VAL, 0).
ExecutedRows ==
    LET executed == SelectSeq(processor_matrix, LAMBDA row : row.CURR_INSTR # 0)
    IN  [j \in Rows(executed) |->
            MemRow(executed[j].CYCLE, executed[j].MP, executed[j].MEM_VAL, 0)]

\* C19: the rows of derive_matrix's output with DUMMY = 0 are the executed
\* rows of the processor matrix as (CYCLE, MP, MEM_VAL, 0), each once, in
\* the order of a stable sort by MP.
C19_RealRowsKept ==
    Derived =>
        SelectSeq(matrix, LAMBDA row : row.DUMMY = 0)
            = ByMP(ExecutedRows, {ExecutedRows[j].MP : j \in Rows(ExecutedRows)})

\* C19 witness: derive_matrix has returned a matrix with a dummy row, two
\* executed rows of one MP, and a row left out for CURR_INSTR = 0.
C19_Witness ==
    /\ Derived
    /\ \E j \in Rows(matrix) : matrix[j].DUMMY = 1
    /\ \E j \in Rows(matrix) : \E k \in Rows(matrix) :
         /\ j < k
         /\ matrix[j].DUMMY = 0 /\ matrix[k].DUMMY = 0
         /\ matrix[j].MP = matrix[k].MP
    /\ \E c \in Rows(processor_matrix) : processor_matrix[c].CURR_INSTR = 0

\* C20: every row with DUMMY = 1 of derive_matrix's output directly follows
\* a row with its MP and MEM_VAL and one cycle less, and is directly
\* followed by a row with its MP; the output is sorted by MP.
C20_DummyRowsPlaced ==
    Derived =>
        /\ \A j \in Rows(matrix) :
             matrix[j].DUMMY = 1 =>
                 /\ j > 1
                 /\ matrix[j - 1].MP = matrix[j].MP
                 /\ matrix[j - 1].MEM_VAL = matrix[j].MEM_VAL
                 /\ matrix[j].CYCLE = matrix[j - 1].CYCLE + 1
                 /\ j < Len(matrix)
                 /\ matrix[j + 1].MP = matrix[j].MP
        /\ \A j \in Rows(matrix) \ {Len(matrix)} :
             matrix[j].MP <= matrix[j + 1].MP

\* C20 witness: derive_matrix has returned a matrix with two dummy rows in
\* a row and rows of two MPs.
C20_Witness ==
    /\ Derived
    /\ \E j \in Rows(matrix) \ {Len(matrix)} :
         matrix[j].DUMMY = 1 /\ matrix[j + 1].DUMMY = 1
    /\ \E j \in Rows(matrix) : matrix[j].MP # matrix[1].MP

\* ======================================================= examples/fib

\* gen_trace is called with n from 0 to 2^MaxLogN.
MaxLogN == 6
\* The field's arithmetic is computed modulo FieldModulus.
FieldModulus == 97

\* FibAirConfig::NUM_BASE_COLUMNS, and the 8 of num_rows = n / 8.
FibColumns == 8

Add(a, b) == (a + b) % FieldModulus
Sub(a, b) == (a - b) % FieldModulus
Mul(a, b) == (a * b) % FieldModulus

\* gen_trace: v0..v7 before the loop.
first_values ==
    LET v0 == 1
        v1 == Add(v0, v0)
        v2 == Mul(v0, v1)
        v3 == Mul(v1, v2)
        v4 == Mul(v2, v3)
        v5 == Mul(v3, v4)
        v6 == Mul(v4, v5)
        v7 == Mul(v5, v6)
    IN  <<v0, v1, v2, v3, v4, v5, v6, v7>>

\* The loop's update with v1 computed from the old v6.
next_values_stale(v) ==
    LET v0 == Mul(v[7], v[8])
        v1 == Mul(v[8], v[7])
        v2 == Mul(v0, v1)
        v3 == Mul(v1, v2)
        v4 == Mul(v2, v3)
        v5 == Mul(v3, v4)
        v6 == Mul(v4, v5)
        v7 == Mul(v5, v6)
    IN  <<v0, v1, v2, v3, v4, v5, v6, v7>>

\* gen_trace: v0..v7 at the end of the loop's body, from v = (v0..v7).
next_values(v) ==
    LET v0 == Mul(v[7], v[8])
        v1 == Mul(v[8], v0)
        v2 == Mul(v0, v1)
        v3 == Mul(v1, v2)
        v4 == Mul(v2, v3)
        v5 == Mul(v3, v4)
        v6 == Mul(v4, v5)
        v7 == Mul(v5, v6)
    IN  <<v0, v1, v2, v3, v4, v5, v6, v7>>

\* let num_rows = n / 8
num_rows == fib_n \div FibColumns

\* gen_trace: assert!(n.is_power_of_two()); assert!(n > 8); the columns
\* are allocated and v0..v7 set.
GenTraceEnter ==
    /\ fib_pc = "gen_trace"
    /\ IF is_power_of_two(fib_n) /\ fib_n > FibColumns
       THEN /\ fib_cols' = [c \in 1..FibColumns |-> <<>>]
            /\ fib_v' = first_values
            /\ fib_pc' = "loop"
       ELSE /\ UNCHANGED <<fib_cols, fib_v>>
            /\ fib_pc' = "panicked"
    /\ UNCHANGED <<fib_n, fib_claim, pipeline, tblvars, csvars, optvars, memvars, bfvars>>

\* gen_trace, one pass of for _ in 0..num_rows: v0..v7 are pushed onto
\* col0..col7 and updated.
PushRow ==
    /\ fib_pc = "loop"
    /\ Len(fib_cols[1]) < num_rows
    /\ fib_cols' = [c \in 1..FibColumns |-> Append(fib_cols[c], fib_v[c])]
    /\ fib_v' = next_values(fib_v)
    /\ UNCHANGED <<fib_n, fib_pc, fib_claim, pipeline, tblvars, csvars, optvars, memvars,
                   bfvars>>

\* gen_trace returns FibTrace(Matrix::new(vec![col0, .., col7])).
ReturnTrace ==
    /\ fib_pc = "loop"
    /\ Len(fib_cols[1]) = num_rows
    /\ fib_pc' = "claim"
    /\ UNCHANGED <<fib_n, fib_cols, fib_v, fib_claim, pipeline, tblvars, csvars, optvars,
                   memvars, bfvars>>

\* FibTrace::last_value: the last entry of column 7.
last_value == fib_cols[FibColumns][Len(fib_cols[FibColumns])]

\* FibClaim(x): main claims trace.last_value(); a caller may claim another
\* field element.
MakeClaim ==
    /\ fib_pc = "claim"
    /\ \E claimed \in {last_value, Add(last_value, 1)} :
         fib_claim' = <<claimed>>
    /\ fib_pc' = "claimed"
    /\ UNCHANGED <<fib_n, fib_cols, fib_v, pipeline, tblvars, csvars, optvars, memvars,
                   bfvars>>

\* Row r of the trace (rows counted from 1).
trace_row(r) == [c \in 1..FibColumns |-> fib_cols[c][r]]

\* FibAirConfig::constraints, the boundary constraints at a row: the
\* values of the eight polynomials.
boundary_constraints(curr) ==
    LET v0 == 1
        v1 == Add(v0, v0)
        v2 == Mul(v1, v0)
        v3 == Mul(v1, v2)
        v4 == Mul(v2, v3)
        v5 == Mul(v3, v4)
        v6 == Mul(v4, v5)
        v7 == Mul(v5, v6)
    IN  <<Sub(curr[1], v0), Sub(curr[2], v1), Sub(curr[3], v2),
          Sub(curr[4], v3), Sub(curr[5], v4), Sub(curr[6], v5),
          Sub(curr[7], v6), Sub(curr[8], v7)>>

\* FibAirConfig::constraints, the transition constraints at a pair of
\* rows.
fib_transition_constraints(curr, next) ==
    <<Sub(next[1], Mul(curr[7], curr[8])),
      Sub(next[2], Mul(curr[8], next[1])),
      Sub(next[3], Mul(next[1], next[2])),
      Sub(next[4], Mul(next[2], next[3])),
      Sub(next[5], Mul(next[3], next[4])),
      Sub(next[6], Mul(next[4], next[5])),
      Sub(next[7], Mul(next[5], next[6])),
      Sub(next[8], Mul(next[6], next[7]))>>

\* FibAirConfig::constraints, the terminal constraint at a row, with the
\* hint ClaimedNthFibNum.
terminal_constraints(curr, claimed_nth_fib_number) ==
    <<Sub(curr[8], claimed_nth_fib_number)>>

FibInit ==
    /\ fib_n \in 0..(2 ^ MaxLogN)
    /\ fib_v = <<>>
    /\ fib_cols = <<>>
    /\ fib_pc = "gen_trace"
    /\ fib_claim = <<>>
    /\ PipelineIdle
    /\ OptionsIdle
    /\ MemoryIdle
    /\ BrainfuckIdle
    /\ TableIdle
    /\ ConstraintsIdle

FibNext ==
    \/ GenTraceEnter
    \/ PushRow
    \/ ReturnTrace
    \/ MakeClaim

FibSpec == FibInit /\ [][FibNext]_vars

\* All the values of a vector of constraints are zero.
Vanish(values) == \A k \in DOMAIN values : values[k] = 0

\* C16: gen_trace(n) returns exactly for the powers of two n > 8; the
\* trace has 8 columns of n/8 rows; the boundary constraints vanish on the
\* first row, the transition constraints on every pair of consecutive rows,
\* and the terminal constraint on the last row when the claim is
\* last_value().
C16_FibTraceValid ==
    /\ fib_pc = "panicked"
         => fib_n \notin {2 ^ k : k \in 4..MaxLogN}
    /\ fib_pc \in {"claim", "claimed"} =>
         /\ fib_n \in {2 ^ k : k \in 4..MaxLogN}
         /\ Len(fib_cols) = 8
         /\ \A c \in 1..8 : Len(fib_cols[c]) * 8 = fib_n
         /\ Vanish(boundary_constraints(trace_row(1)))
         /\ \A r \in 1..(Len(fib_cols[1]) - 1) :
              Vanish(fib_transition_constraints(trace_row(r), trace_row(r + 1)))
         /\ (fib_claim # <<>> /\ fib_claim[1] = last_value)
              => Vanish(terminal_constraints(trace_row(Len(fib_cols[1])),
                                             fib_claim[1]))

\* C16 witness: gen_trace(32) has returned its four rows and main has
\* claimed the trace's last value.
C16_Witness ==
    /\ fib_pc = "claimed"
    /\ fib_n = 32
    /\ Len(fib_cols[1]) = 4
    /\ fib_claim = <<last_value>>

\* ================================================= examples/brainfuck

\* Largest number of bytes a program reads, and of bytes it writes.
MaxIoLen == 2
\* Largest number of rows of an execution trace.
MaxTraceRows == 3

\* The bytes read and written: 'H' and '\n'.
Bytes == {72, 10}

\* The byte sequences of up to MaxIoLen bytes.
ByteSeqs == UNION {[1..n -> Bytes] : n \in 0..MaxIoLen}

\* main: simulate(&program, &mut input, &mut output) runs the program; it
\* returns the trace and has read input and written output.
Simulate ==
    /\ bf_pc = "simulate"
    /\ \E rows \in 1..MaxTraceRows : \E input \in ByteSeqs :
         \E output \in ByteSeqs :
           bf_run' = <<[rows |-> rows, input |-> input, output |-> output]>>
    /\ bf_pc' = "prove"
    /\ UNCHANGED <<pub_inputs, pipeline, tblvars, csvars, optvars, memvars, fibvars>>

\* BrainfuckProver::get_pub_inputs(&trace)
get_pub_inputs(trace) ==
    [execution_len |-> trace.rows, input |-> <<>>, output |-> <<>>]

\* main: prover.generate_proof(BrainfuckTrace(trace)), whose first step
\* hands get_pub_inputs(&trace) to the AIR.
GetPubInputs ==
    /\ bf_pc = "prove"
    /\ pub_inputs' = <<get_pub_inputs(bf_run[1])>>
    /\ bf_pc' = "proving"
    /\ UNCHANGED <<bf_run, pipeline, tblvars, csvars, optvars, memvars, fibvars>>

BrainfuckInit ==
    /\ bf_run = <<>>
    /\ bf_pc = "simulate"
    /\ pub_inputs = <<>>
    /\ PipelineIdle
    /\ OptionsIdle
    /\ MemoryIdle
    /\ FibIdle
    /\ TableIdle
    /\ ConstraintsIdle

BrainfuckNext ==
    \/ Simulate
    \/ GetPubInputs

BrainfuckSpec == BrainfuckInit /\ [][BrainfuckNext]_vars

\* C17: the ExecutionInfo handed to the AIR carries the bytes the execution
\* read and the bytes it wrote.
C17_PublicInputsCarryIo ==
    pub_inputs # <<>> =>
        /\ pub_inputs[1].input = bf_run[1].input
        /\ pub_inputs[1].output = bf_run[1].output

\* ======================================== MemoryTable: the constraints

\* The challenges extension_transition_constraints and
\* extension_terminal_constraints take from their iterator: a, b, c, d, e,
\* f, alpha, beta, gamma, delta, eta.
NumChallenges == 11
\* The terminals extension_terminal_constraints takes from its iterator.
NumTerminals == 5

\* The lengths of the tables the base constraints are evaluated on.
TableLens == {2, 3}

\* Field elements tried: 0, 1, 2 and -1.
Felts == {0, 1, 2, FieldModulus - 1}

\* Rows of a table a prover submits: DUMMY is any of 0, 1, 2.
BaseRows == [CYCLE : {0, 1}, MP : {0, 1}, MEM_VAL : {0, 1}, DUMMY : {0, 1, 2}]

\* Rows of an extended table.
ExtensionRows ==
    [CYCLE : {0, 1}, MP : {0, 1}, MEM_VAL : {0, 1}, DUMMY : {0, 1, 2},
     PERMUTATION : Felts]

\* Challenge vectors: d, e, f (4th to 6th) and beta (8th) vary, the others
\* are 3.
ChallengeVectors ==
    { [k \in 1..NumChallenges |->
          CASE k = 4 -> d [] k = 5 -> e [] k = 6 -> f [] k = 8 -> beta
            [] OTHER -> 3] :
      d \in {0, 1, 2}, e \in {0, 1, 2}, f \in {0, 1, 2}, beta \in {0, 1, 2} }

\* Terminal vectors: the processor-memory permutation terminal (2nd)
\* varies, the others are 3.
TerminalVectors ==
    { [k \in 1..NumTerminals |-> IF k = 2 THEN terminal ELSE 3] :
      terminal \in Felts }

\* MemoryTable::base_boundary_constraints at a row: the values of the
\* polynomials of the vector.
base_boundary_constraints(row) == <<row.CYCLE, row.MP, row.MEM_VAL>>

\* MemoryTable::base_transition_constraints at a pair of rows.
base_transition_constraints(row, next) == transition_constraints(row, next)

\* The permutation constraint with alpha, the 7th challenge, in beta's
\* place.
permutation_constraint_alpha(challenge_values, row, next) ==
    LET d == challenge_values[4]
        e == challenge_values[5]
        f == challenge_values[6]
        alpha == challenge_values[7]
    IN  Add(Mul(Sub(next.PERMUTATION,
                    Mul(row.PERMUTATION,
                        Sub(Sub(Sub(alpha, Mul(row.CYCLE, d)),
                                Mul(row.MP, e)),
                            Mul(row.MEM_VAL, f)))),
                Sub(row.DUMMY, 1)),
            Mul(Sub(next.PERMUTATION, row.PERMUTATION), row.DUMMY))

\* extension_transition_constraints: permutation_constraint at a pair of
\* rows, in the field's arithmetic.
permutation_constraint(challenge_values, row, next) ==
    LET d == challenge_values[4]
        e == challenge_values[5]
        f == challenge_values[6]
        beta == challenge_values[8]
    IN  Add(Mul(Sub(next.PERMUTATION,
                    Mul(row.PERMUTATION,
                        Sub(Sub(Sub(beta, Mul(row.CYCLE, d)),
                                Mul(row.MP, e)),
                            Mul(row.MEM_VAL, f)))),
                Sub(row.DUMMY, 1)),
            Mul(Sub(next.PERMUTATION, row.PERMUTATION), row.DUMMY))

\* MemoryTable::extension_transition_constraints at a pair of rows: the
\* six base transition constraints, then the permutation constraint.
extension_transition_constraints(challenge_values, row, next) ==
    Append(transition_constraints(row, next),
           permutation_constraint(challenge_values, row, next))

\* The terminal constraint comparing the bare PERMUTATION with the
\* terminal on every row.
extension_terminal_constraints_bare(challenge_values, terminals, row) ==
    <<Sub(row.PERMUTATION, terminals[2])>>

\* MemoryTable::extension_terminal_constraints at a row, in the field's
\* arithmetic.
extension_terminal_constraints(challenge_values, terminals, row) ==
    LET d == challenge_values[4]
        e == challenge_values[5]
        f == challenge_values[6]
        beta == challenge_values[8]
        processor_memory_permutation_terminal == terminals[2]
    IN  <<Add(Mul(Sub(Mul(row.PERMUTATION,
                          Sub(Sub(Sub(beta, Mul(row.CYCLE, d)),
                                  Mul(row.MP, e)),
                              Mul(row.MEM_VAL, f))),
                      processor_memory_permutation_terminal),
                  Sub(row.DUMMY, 1)),
              Mul(Sub(row.PERMUTATION, processor_memory_permutation_terminal),
                  row.DUMMY))>>

\* The base constraints are evaluated on a table: the boundary constraints
\* on its first row, the transition constraints on its consecutive rows.
EvalBaseConstraints ==
    /\ evaluated = <<>>
    /\ \E n \in TableLens : \E rows \in [1..n -> BaseRows] :
         evaluated' =
             <<[kind |-> "base",
                rows |-> rows,
                boundary |-> base_boundary_constraints(rows[1]),
                transitions |->
                    [j \in 1..(n - 1) |->
                        base_transition_constraints(rows[j], rows[j + 1])]]>>
    /\ UNCHANGED <<pipeline, optvars, memvars, fibvars, bfvars, tblvars>>

\* The extension transition constraints are evaluated on a row and a
\* following row of the same MP and MEM_VAL.
EvalExtensionTransition ==
    /\ evaluated = <<>>
    /\ \E row \in ExtensionRows : \E permutation_next \in Felts :
         \E challenge_values \in ChallengeVectors :
           LET next == [CYCLE |-> row.CYCLE + 1, MP |-> row.MP,
                        MEM_VAL |-> row.MEM_VAL, DUMMY |-> 1,
                        PERMUTATION |-> permutation_next]
           IN  evaluated' =
                   <<[kind |-> "transition",
                      row |-> row,
                      next |-> next,
                      challenges |-> challenge_values,
                      values |->
                          extension_transition_constraints(challenge_values, row,
                                                           next)]>>
    /\ UNCHANGED <<pipeline, optvars, memvars, fibvars, bfvars, tblvars>>

\* The extension terminal constraint is evaluated on a last row.
EvalExtensionTerminal ==
    /\ evaluated = <<>>
    /\ \E row \in ExtensionRows : \E challenge_values \in ChallengeVectors :
         \E terminals \in TerminalVectors :
           evaluated' =
               <<[kind |-> "terminal",
                  row |-> row,
                  challenges |-> challenge_values,
                  terminals |-> terminals,
                  values |->
                      extension_terminal_constraints(challenge_values, terminals,
                                                     row)]>>
    /\ UNCHANGED <<pipeline, optvars, memvars, fibvars, bfvars, tblvars>>

ConstraintsInit ==
    /\ evaluated = <<>>
    /\ PipelineIdle
    /\ OptionsIdle
    /\ MemoryIdle
    /\ FibIdle
    /\ BrainfuckIdle
    /\ TableIdle

ConstraintsNext ==
    \/ EvalBaseConstraints
    \/ EvalExtensionTransition
    \/ EvalExtensionTerminal

ConstraintsSpec == ConstraintsInit /\ [][ConstraintsNext]_vars

\* Constraints of the given kind have been evaluated.
Evaluated(kind) == evaluated # <<>> /\ evaluated[1].kind = kind

\* C21: a table on which the base boundary constraints vanish on the first
\* row and the base transition constraints on every consecutive pair has
\* DUMMY in {0, 1} in every row, the first row included.
C21_DummyIsBit ==
    Evaluated("base") =>
        LET e == evaluated[1]
        IN  (/\ Vanish(e.boundary)
             /\ \A j \in DOMAIN e.transitions : Vanish(e.transitions[j]))
            => \A j \in DOMAIN e.rows : e.rows[j].DUMMY \in {0, 1}

\* The factor a row contributes to the running product:
\* beta - d * CYCLE - e * MP - f * MEM_VAL, with d, e, f the 4th to 6th
\* challenges and beta the 8th.
RowFactor(challenge_values, row) ==
    (challenge_values[8] - challenge_values[4] * row.CYCLE - challenge_values[5] * row.MP
       - challenge_values[6] * row.MEM_VAL) % FieldModulus

\* C25: for DUMMY in {0, 1} the permutation transition constraint is zero
\* iff PERMUTATION_next = PERMUTATION * (beta - d CYCLE - e MP - f MEM_VAL)
\* when DUMMY = 0, and iff PERMUTATION_next = PERMUTATION when DUMMY = 1.
C25_PermutationTransition ==
    (Evaluated("transition") /\ evaluated[1].row.DUMMY \in {0, 1}) =>
        LET e == evaluated[1]
        IN  /\ Len(e.values) = 7
            /\ e.values[7] = 0
                 <=> IF e.row.DUMMY = 0
                     THEN e.next.PERMUTATION
                            = (e.row.PERMUTATION * RowFactor(e.challenges, e.row))
                                % FieldModulus
                     ELSE e.next.PERMUTATION = e.row.PERMUTATION

\* C25 witness: the constraint is zero on a row with DUMMY = 0 whose
\* running product is multiplied by a factor other than one.
C25_Witness ==
    /\ Evaluated("transition")
    /\ evaluated[1].row.DUMMY = 0
    /\ evaluated[1].values[7] = 0
    /\ evaluated[1].row.PERMUTATION = 1
    /\ evaluated[1].next.PERMUTATION = 2

\* C26: for DUMMY in {0, 1} the extension terminal constraint is zero iff
\* PERMUTATION * (beta - d CYCLE - e MP - f MEM_VAL) is the 2nd terminal
\* when DUMMY = 0, and iff PERMUTATION is that terminal when DUMMY = 1.
C26_PermutationTerminal ==
    (Evaluated("terminal") /\ evaluated[1].row.DUMMY \in {0, 1}) =>
        LET e == evaluated[1]
        IN  /\ Len(e.values) = 1
            /\ e.values[1] = 0
                 <=> IF e.row.DUMMY = 0
                     THEN (e.row.PERMUTATION * RowFactor(e.challenges, e.row))
                            % FieldModulus = e.terminals[2]
                     ELSE e.row.PERMUTATION = e.terminals[2]

\* C26 witness: the constraint is zero on a last row with DUMMY = 0 whose
\* PERMUTATION is not the terminal.
C26_Witness ==
    /\ Evaluated("terminal")
    /\ evaluated[1].row.DUMMY = 0
    /\ evaluated[1].values[1] = 0
    /\ evaluated[1].row.PERMUTATION = 1
    /\ evaluated[1].terminals[2] = 2

\* ======================================== MemoryTable: new, set_matrix, pad

\* The largest n passed to pad.
MaxPad == 4

\* The lengths of the matrices passed to set_matrix.
MatrixLens == {0, 1, 2}

\* Rows passed to set_matrix: the clock at either end of the field, DUMMY
\* 0 or 2 (pad's own rows have DUMMY = 1).
MatrixRows ==
    [CYCLE : {0, FieldModulus - 1}, MP : {0, 1}, MEM_VAL : {0, 1},
     DUMMY : {0, 2}]

\* MemoryTable::new.
new(num_randomizers) ==
    [num_padded_rows |-> 0, num_randomizers |-> num_randomizers,
     matrix |-> <<>>]

\* Table::len.
len(self) == Len(self.matrix) - self.num_padded_rows

\* set_matrix without the reset of num_padded_rows.
set_matrix_keep_padding(self, m) == [self EXCEPT !.matrix = m]

\* Table::set_matrix.
set_matrix(self, m) == [self EXCEPT !.num_padded_rows = 0, !.matrix = m]

\* The row pad would push if it repeated the clock of the last row.
padding_row_same_cycle(last_row) ==
    MemRow(last_row.CYCLE, last_row.MP, last_row.MEM_VAL, 1)

\* The row pad pushes after last_row.
padding_row(last_row) ==
    MemRow(Add(last_row.CYCLE, 1), last_row.MP, last_row.MEM_VAL, 1)

\* pad's call of unwrap on the last row of an empty matrix.
pad_panics(self, n) == Len(self.matrix) < n /\ self.matrix = <<>>

\* pad with an if in place of the while.
pad_once(self, n) ==
    IF Len(self.matrix) < n /\ self.matrix # <<>>
    THEN [self EXCEPT
            !.matrix = Append(@, padding_row(self.matrix[Len(self.matrix)])),
            !.num_padded_rows = @ + 1]
    ELSE self

\* Table::pad on a matrix that has a last row: the whole loop.
RECURSIVE pad(_, _)
pad(self, n) ==
    IF Len(self.matrix) < n /\ self.matrix # <<>>
    THEN pad([self EXCEPT
                !.matrix =
                    Append(@, padding_row(self.matrix[Len(self.matrix)])),
                !.num_padded_rows = @ + 1], n)
    ELSE self

\* The record of a call of pad: its n, the table before it and whether the
\* call panicked.
Call(n, panicked) ==
    <<[n |-> n, before |-> table, panicked |-> panicked]>>

\* The last call on the table was pad and it panicked.
TablePanicked == last_call # <<>> /\ last_call[1].panicked

\* MemoryTable::new: a fresh table.
New ==
    /\ \E num_randomizers \in {0, 1} :
         table' = new(num_randomizers)
    /\ last_set' = <<>>
    /\ last_call' = <<>>
    /\ UNCHANGED <<pipeline, optvars, memvars, fibvars, bfvars, csvars>>

\* Table::set_matrix.
SetMatrix ==
    /\ ~TablePanicked
    /\ \E k \in MatrixLens : \E m \in [1..k -> MatrixRows] :
         /\ table' = set_matrix(table, m)
         /\ last_set' = <<m>>
    /\ last_call' = <<>>
    /\ UNCHANGED <<pipeline, optvars, memvars, fibvars, bfvars, csvars>>

\* Table::pad.
Pad ==
    /\ ~TablePanicked
    /\ \E n \in 0..MaxPad :
         IF pad_panics(table, n)
         THEN /\ table' = table
              /\ last_call' = Call(n, TRUE)
         ELSE /\ table' = pad(table, n)
              /\ last_call' = Call(n, FALSE)
    /\ UNCHANGED last_set
    /\ UNCHANGED <<pipeline, optvars, memvars, fibvars, bfvars, csvars>>

TableInit ==
    /\ TableIdle
    /\ PipelineIdle
    /\ OptionsIdle
    /\ MemoryIdle
    /\ FibIdle
    /\ BrainfuckIdle
    /\ ConstraintsIdle

TableNext ==
    \/ New
    \/ SetMatrix
    \/ Pad

TableSpec == TableInit /\ [][TableNext]_vars

\* The length of the matrix most recently passed to set_matrix, 0 if none.
LastSetLen == IF last_set = <<>> THEN 0 ELSE Len(last_set[1])

\* The last call was pad and it returned.
Padded == last_call # <<>> /\ ~last_call[1].panicked

\* C22: after any sequence of new, set_matrix and pad, len() is the length
\* of the matrix most recently passed to set_matrix (0 if none),
\* num_padded_rows <= matrix.len(), and pad leaves len() as it was.
C22_LenIsUnpaddedLength ==
    /\ len(table) = LastSetLen
    /\ table.num_padded_rows <= Len(table.matrix)
    /\ last_call # <<>> => len(table) = len(last_call[1].before)

\* C22 witness: a matrix of two rows was set and pad has appended two more.
C22_Witness ==
    /\ Padded
    /\ LastSetLen = 2
    /\ Len(table.matrix) = 4
    /\ table.num_padded_rows = 2

\* The values vanish in the field.
VanishInField(values) ==
    \A k \in DOMAIN values : values[k] % FieldModulus = 0

\* C23: every row pad appended satisfies the six base transition
\* constraints with its predecessor, whatever the predecessor holds.
C23_PaddingSatisfiesConstraints ==
    Padded =>
        \A j \in (Len(last_call[1].before.matrix) + 1)..Len(table.matrix) :
            /\ Len(transition_constraints(table.matrix[j - 1],
                                          table.matrix[j])) = 6
            /\ VanishInField(transition_constraints(table.matrix[j - 1],
                                                    table.matrix[j]))

\* C23 witness: pad appended rows after a row with DUMMY = 2 and the
\* clock at the top of the field.
C23_Witness ==
    /\ Padded
    /\ Len(last_call[1].before.matrix) = 1
    /\ Len(table.matrix) = 3
    /\ table.matrix[1].DUMMY = 2
    /\ table.matrix[1].CYCLE = FieldModulus - 1
    /\ table.matrix[1].MEM_VAL = 1

\* C24: pad(n) only appends: the first L rows are unchanged and the final
\* length is max(L, n), nothing changes when n <= L, and on an empty
\* matrix with n > 0 it fails.
C24_PadOnlyAppends ==
    last_call # <<>> =>
        LET c == last_call[1]
            L == Len(c.before.matrix)
        IN  /\ c.panicked <=> (L = 0 /\ c.n > 0)
            /\ c.panicked => table = c.before
            /\ ~c.panicked =>
                 /\ Len(table.matrix) = IF L >= c.n THEN L ELSE c.n
                 /\ SubSeq(table.matrix, 1, L) = c.before.matrix
                 /\ c.n <= L => table = c.before

\* C24 witness: pad(4) on a matrix of one row.
C24_Witness ==
    /\ Padded
    /\ last_call[1].n = 4
    /\ Len(last_call[1].before.matrix) = 1
    /\ Len(table.matrix) = 4

====
